---- MODULE Spec2Model ----
(***************************************************************************)
(* Model of wide2long/core.py: convert (merge of the column selections,    *)
(* sanity checks, rename + melt, tag decoding, pivot_table) and            *)
(* load_mapping (CSV, named-block JSON, key-value JSON).                   *)
(*                                                                         *)
(* A Python str is a sequence of one-character strings, so that the tag    *)
(* "__H__" + element + "|" + variable, its decoding, whitespace trimming   *)
(* and the lexicographic ordering of labels are computed, not assumed.     *)
(* A DataFrame is [columns |-> labels, data |-> rows], cells by position   *)
(* (labels may repeat after rename).  An ordered Python dict is a sequence *)
(* of [k, v] records with distinct keys.                                   *)
(***************************************************************************)
EXTENDS Integers, Sequences, FiniteSets, TLC

VARIABLES
    pc,              \* position in convert: "merge","check","melt","split","pivot","done","raised"
    df,              \* convert's argument df
    id_cols,         \* convert's argument id_cols
    mapping,         \* convert's argument mapping, flattened: the (k, v) items in iteration order
    validate,        \* convert's argument validate
    pos,             \* index of the next item of mapping the merge loop visits
    colmap,          \* the merged dict
    err,             \* the exception raised, [type |-> "none"] while none
    df_helper_long,  \* the melted frame (lines 59-64), then with the decoded columns (line 73)
    out,             \* the returned frame
    files,           \* load_mapping: the mapping files on disk, by name
    loaded           \* load_mapping: its result per file, "pending" before the call

vars == <<pc, df, id_cols, mapping, validate, pos, colmap, err, df_helper_long, out, files, loaded>>

convertVars == <<pc, df, id_cols, mapping, validate, pos, colmap, err, df_helper_long, out>>
loadVars == <<files, loaded>>

----------------------------------------------------------------------------
(* Strings *)

\* The characters the model uses, in code-point order.
Ascii == <<" ", ".", "0", "1", "H", "_", "a", "e", "i", "j", "k", "l", "m",
           "n", "p", "s", "t", "u", "w", "x", "y", "z", "|">>

Ord(c) == CHOOSE n \in DOMAIN Ascii : Ascii[n] = c

\* Python's str < str: lexicographic by code point, a proper prefix is smaller.
RECURSIVE StrLess(_, _)
StrLess(a, b) ==
    IF b = <<>> THEN FALSE
    ELSE IF a = <<>> THEN TRUE
    ELSE IF a[1] = b[1] THEN StrLess(Tail(a), Tail(b))
    ELSE Ord(a[1]) < Ord(b[1])

\* Mutant of SortLabels: descending instead of ascending.
RECURSIVE SortLabels_Descending(_)
SortLabels_Descending(S) ==
    IF S = {} THEN <<>>
    ELSE LET m == CHOOSE x \in S : \A y \in S \ {x} : StrLess(y, x)
         IN  <<m>> \o SortLabels_Descending(S \ {m})

RECURSIVE SortLabels(_)
SortLabels(S) ==
    IF S = {} THEN <<>>
    ELSE LET m == CHOOSE x \in S : \A y \in S \ {x} : StrLess(x, y)
         IN  <<m>> \o SortLabels(S \ {m})

Range(s) == {s[n] : n \in DOMAIN s}

\* The positions of s whose element satisfies nothing earlier: first occurrences, in order.
RECURSIVE Unique(_)
Unique(s) ==
    IF s = <<>> THEN <<>>
    ELSE LET r == Unique(SubSeq(s, 1, Len(s) - 1))
         IN  IF s[Len(s)] \in Range(r) THEN r ELSE Append(r, s[Len(s)])

RECURSIVE Flatten(_)
Flatten(ss) == IF ss = <<>> THEN <<>> ELSE Head(ss) \o Flatten(Tail(ss))

----------------------------------------------------------------------------
(* Labels and values of the explored inputs *)

NA == -1                      \* pandas' missing value (NaN) in a cell

ELEMENT == <<"e", "l", "e", "m", "e", "n", "t">>
PREFIX  == <<"_", "_", "H", "_", "_">>
BAR     == "|"

ColS == <<"s">>
ColT == <<"t">>
ColU == <<"u">>
ColX == <<"x">>
ColY == <<"y">>
ColZ == <<"z">>
ColW == <<"w">>

MaxRows  == 2                 \* rows of the input table
MaxAssoc == 2                 \* items of the mapping

IdValues == {1, 2}

NoErr == [type |-> "none", what |-> "", cols |-> <<>>]
NoFrame == [columns |-> <<>>, rows |-> <<>>]

----------------------------------------------------------------------------
(* Python dict *)

Keys(d) == {d[n].k : n \in DOMAIN d}

KeyList(d) == [n \in DOMAIN d |-> d[n].k]

Lookup(d, k) == d[CHOOSE n \in DOMAIN d : d[n].k = k].v

\* d[k] = v: an existing key keeps its position, a new key goes last.
SetItem(d, k, v) ==
    IF k \in Keys(d)
    THEN [n \in DOMAIN d |-> IF d[n].k = k THEN [k |-> k, v |-> v] ELSE d[n]]
    ELSE Append(d, [k |-> k, v |-> v])

----------------------------------------------------------------------------
(* convert, lines 36-43: merge column selections *)

Raise(type, what, cols) ==
    /\ pc' = "raised"
    /\ err' = [type |-> type, what |-> what, cols |-> cols]

\* Mutant of Conflict: any re-assignment of a column is a conflict, equal pair or not.
Conflict_AnyReassignment(d, k, v) == validate /\ k \in Keys(d)

\* line 39
Conflict(d, k, v) == validate /\ k \in Keys(d) /\ Lookup(d, k) # v

MergeStep ==
    /\ pc = "merge"
    /\ pos <= Len(mapping)
    /\ LET k == mapping[pos].k
           v == mapping[pos].v
       IN  IF Conflict(colmap, k, v)
           THEN /\ Raise("ValueError", "mapped to different targets", <<k>>)
                /\ UNCHANGED <<pos, colmap>>
           ELSE /\ colmap' = SetItem(colmap, k, v)
                /\ pos' = pos + 1
                /\ UNCHANGED <<pc, err>>
    /\ UNCHANGED <<df, id_cols, mapping, validate, df_helper_long, out>>
    /\ UNCHANGED loadVars

\* lines 42-43
MergeDone ==
    /\ pc = "merge"
    /\ pos > Len(mapping)
    /\ IF colmap = <<>>
       THEN Raise("ValueError", "No columns were selected", <<>>)
       ELSE pc' = "check" /\ UNCHANGED err
    /\ UNCHANGED <<df, id_cols, mapping, validate, pos, colmap, df_helper_long, out>>
    /\ UNCHANGED loadVars

----------------------------------------------------------------------------
(* convert, lines 46-52: sanity checks *)

\* Mutant of MissingCols: only the first absent column is reported.
MissingCols_FirstOnly(d, frame) ==
    LET missing == SelectSeq(KeyList(d), LAMBDA c : c \notin Range(frame.columns))
    IN  IF missing = <<>> THEN <<>> ELSE <<Head(missing)>>

\* line 47
MissingCols(d, frame) == SelectSeq(KeyList(d), LAMBDA c : c \notin Range(frame.columns))

MissingIds(ids, frame) == SelectSeq(ids, LAMBDA c : c \notin Range(frame.columns))

SanityChecks ==
    /\ pc = "check"
    /\ IF validate /\ MissingCols(colmap, df) # <<>>
       THEN Raise("KeyError", "Selected columns not in DataFrame", MissingCols(colmap, df))
       ELSE IF validate /\ MissingIds(id_cols, df) # <<>>
       THEN Raise("KeyError", "id column not in DataFrame", <<Head(MissingIds(id_cols, df))>>)
       ELSE pc' = "melt" /\ UNCHANGED err
    /\ UNCHANGED <<df, id_cols, mapping, validate, pos, colmap, df_helper_long, out>>
    /\ UNCHANGED loadVars

----------------------------------------------------------------------------
(* convert, lines 55-64: helper map, rename, melt *)

\* line 55: f"__H__{elt}|{tgt}"
Tag(elt, tgt) == PREFIX \o elt \o <<BAR>> \o tgt

helper_map(d) == [n \in DOMAIN d |-> [k |-> d[n].k, v |-> Tag(d[n].v[1], d[n].v[2])]]

\* line 56: DataFrame.rename(columns=...): labels that are keys are replaced, others kept.
Rename(frame, hm) ==
    [frame EXCEPT !.columns =
        [c \in DOMAIN frame.columns |->
            IF frame.columns[c] \in Keys(hm) THEN Lookup(hm, frame.columns[c])
            ELSE frame.columns[c]]]

\* Index.get_indexer_for(labels): for each label in turn, every position that carries it.
PositionsOf(columns, label) == SelectSeq([n \in DOMAIN columns |-> n], LAMBDA n : columns[n] = label)

IndexerFor(columns, labels) == Flatten([n \in DOMAIN labels |-> PositionsOf(columns, labels[n])])

\* DataFrame.melt(id_vars, value_vars, var_name="__h", value_name="value"): one long row
\* per value column (in the order of the unique indexer) and per wide row.
Melt(frame, id_vars, value_vars) ==
    LET idx  == Unique(IndexerFor(frame.columns, id_vars \o value_vars))
        vidx == SelectSeq(idx, LAMBDA n : frame.columns[n] \notin Range(id_vars))
        idOf(r) == [c \in DOMAIN id_vars |-> r[Head(PositionsOf(frame.columns, id_vars[c]))]]
    IN  Flatten([j \in DOMAIN vidx |->
            [r \in DOMAIN frame.data |->
                [ids |-> idOf(frame.data[r]),
                 h |-> frame.columns[vidx[j]],
                 value |-> frame.data[r][vidx[j]]]]])

\* melt raises KeyError when an id_var or value_var is no label of the frame.
MeltMissing(frame, id_vars, value_vars) ==
    SelectSeq(id_vars \o value_vars, LAMBDA c : c \notin Range(frame.columns))

RenameMelt ==
    /\ pc = "melt"
    /\ LET hm        == helper_map(colmap)
           df_helper == Rename(df, hm)
           value_vars == [n \in DOMAIN hm |-> hm[n].v]
       IN  IF MeltMissing(df_helper, id_cols, value_vars) # <<>>
           THEN /\ Raise("KeyError", "not present in the DataFrame",
                         MeltMissing(df_helper, id_cols, value_vars))
                /\ UNCHANGED df_helper_long
           ELSE /\ df_helper_long' = Melt(df_helper, id_cols, value_vars)
                /\ pc' = "split"
                /\ UNCHANGED err
    /\ UNCHANGED <<df, id_cols, mapping, validate, pos, colmap, out>>
    /\ UNCHANGED loadVars

----------------------------------------------------------------------------
(* convert, lines 67-73: decode the tag into 'element' and '__col' *)

\* .str.replace("^__H__", "", regex=True): the prefix goes when the string starts with it.
StripPrefix(s) ==
    IF Len(s) >= Len(PREFIX) /\ SubSeq(s, 1, Len(PREFIX)) = PREFIX
    THEN SubSeq(s, Len(PREFIX) + 1, Len(s))
    ELSE s

\* .str.split("|", n=1, expand=True): cut at the first "|"; no second part without one.
FirstBar(s) == IF \E n \in DOMAIN s : s[n] = BAR
               THEN CHOOSE n \in DOMAIN s : s[n] = BAR /\ \A m \in 1..(n - 1) : s[m] # BAR
               ELSE 0

SplitOnce(s) ==
    IF FirstBar(s) = 0 THEN <<s, <<>>>>
    ELSE <<SubSeq(s, 1, FirstBar(s) - 1), SubSeq(s, FirstBar(s) + 1, Len(s))>>

Decode(h) == SplitOnce(StripPrefix(h))

SplitParts ==
    /\ pc = "split"
    /\ df_helper_long' =
          [n \in DOMAIN df_helper_long |->
              [ids     |-> df_helper_long[n].ids,
               element |-> Decode(df_helper_long[n].h)[1],
               col     |-> Decode(df_helper_long[n].h)[2],
               value   |-> df_helper_long[n].value]]
    /\ pc' = "pivot"
    /\ UNCHANGED <<df, id_cols, mapping, validate, pos, colmap, err, out>>
    /\ UNCHANGED loadVars

----------------------------------------------------------------------------
(* convert, lines 76-84: pivot_table + reset_index *)

\* Tuples of identifier values compare position by position.
RECURSIVE IdsLess(_, _)
IdsLess(a, b) ==
    IF a = <<>> \/ b = <<>> THEN FALSE
    ELSE IF a[1] = b[1] THEN IdsLess(Tail(a), Tail(b))
    ELSE a[1] < b[1]

\* Order of the MultiIndex (id_cols + ["element"]) that groupby(sort=True) produces.
IndexLess(a, b) == IdsLess(a.ids, b.ids) \/ (a.ids = b.ids /\ StrLess(a.element, b.element))

RECURSIVE SortIndex(_)
SortIndex(S) ==
    IF S = {} THEN <<>>
    ELSE LET m == CHOOSE x \in S : \A y \in S \ {x} : IndexLess(x, y)
         IN  <<m>> \o SortIndex(S \ {m})

\* aggfunc="first": the first non-missing value of the group, NA when it has none.
First(long, ids, element, col) ==
    LET hits == SelectSeq(long, LAMBDA r : /\ r.ids = ids
                                           /\ r.element = element
                                           /\ r.col = col
                                           /\ r.value # NA)
    IN  IF hits = <<>> THEN NA ELSE hits[1].value

\* groupby(keys, dropna=True).agg("first") then dropna(how="all"): the groups that
\* survive have no missing key and a non-missing aggregate.
Agged(long) ==
    {[ids |-> r.ids, element |-> r.element, col |-> r.col] :
        r \in {x \in Range(long) : NA \notin Range(x.ids)
                                   /\ First(long, x.ids, x.element, x.col) # NA}}

\* Mutant of PivotTable: no grouping, one output row per long row.
PivotTable_NoGroup(long, index) ==
    LET columns == SortLabels({g.col : g \in Agged(long)})
    IN  [columns |-> index \o <<ELEMENT>> \o columns,
         rows |-> [n \in DOMAIN long |->
                     [ids     |-> long[n].ids,
                      element |-> long[n].element,
                      cells   |-> [c \in DOMAIN columns |->
                                     IF columns[c] = long[n].col THEN long[n].value ELSE NA]]]]

\* unstack("__col"), sort_index(axis=1), droplevel, dropna(axis=1), reset_index,
\* rename_axis: the frame convert returns.
PivotTable(long, index) ==
    LET agged   == Agged(long)
        rowkeys == SortIndex({[ids |-> g.ids, element |-> g.element] : g \in agged})
        columns == SortLabels({g.col : g \in agged})
    IN  [columns |-> index \o <<ELEMENT>> \o columns,
         rows |-> [n \in DOMAIN rowkeys |->
                     [ids     |-> rowkeys[n].ids,
                      element |-> rowkeys[n].element,
                      cells   |-> [c \in DOMAIN columns |->
                                     IF [ids |-> rowkeys[n].ids, element |-> rowkeys[n].element,
                                         col |-> columns[c]] \in agged
                                     THEN First(long, rowkeys[n].ids, rowkeys[n].element, columns[c])
                                     ELSE NA]]]]

\* reset_index raises ValueError when an index level's name is already a column.
CannotInsert(long, index) == {g.col : g \in Agged(long)} \cap (Range(index) \cup {ELEMENT})

Pivot ==
    /\ pc = "pivot"
    /\ IF CannotInsert(df_helper_long, id_cols) # {}
       THEN /\ Raise("ValueError", "cannot insert, already exists",
                     SortLabels(CannotInsert(df_helper_long, id_cols)))
            /\ UNCHANGED out
       ELSE /\ out' = PivotTable(df_helper_long, id_cols)
            /\ pc' = "done"
            /\ UNCHANGED err
    /\ UNCHANGED <<df, id_cols, mapping, validate, pos, colmap, df_helper_long>>
    /\ UNCHANGED loadVars

----------------------------------------------------------------------------------------------------------------------------------------------
(* load_mapping, lines 111-172 *)

REQUIRED_KEYS == {"source_col", "element_id", "variable_col"}

SPACE == " "
DIGITS == {"0", "1"}

\* str.strip(): leading and trailing whitespace goes.
RECURSIVE LStrip(_)
LStrip(s) == IF s # <<>> /\ Head(s) = SPACE THEN LStrip(Tail(s)) ELSE s

RECURSIVE RStrip(_)
RStrip(s) == IF s # <<>> /\ s[Len(s)] = SPACE THEN RStrip(SubSeq(s, 1, Len(s) - 1)) ELSE s

Strip(s) == RStrip(LStrip(s))

(* pd.read_csv (line 130) with its defaults types every column from its cells:   *)
(* an empty field is a missing value; a column whose fields are all integer      *)
(* numerals (blanks around them allowed) is int64; integer numerals with missing *)
(* values make it float64; anything else leaves the column as objects, the       *)
(* fields kept as text and the missing ones NaN.                                 *)
IsNaField(c) == c = <<>>

IsIntField(c) == Strip(c) # <<>> /\ \A n \in DOMAIN Strip(c) : Strip(c)[n] \in DIGITS

\* str(int(c)): the numeral without its leading zeros.
RECURSIVE DropZeros(_)
DropZeros(s) == IF Len(s) > 1 /\ Head(s) = "0" THEN DropZeros(Tail(s)) ELSE s

IntText(c) == DropZeros(Strip(c))

NAN == <<"n", "a", "n">>

Dtype(cells) ==
    IF \A n \in DOMAIN cells : IsNaField(cells[n]) THEN "float64"
    ELSE IF \A n \in DOMAIN cells : IsIntField(cells[n]) THEN "int64"
    ELSE IF \A n \in DOMAIN cells : IsNaField(cells[n]) \/ IsIntField(cells[n]) THEN "float64"
    ELSE "object"

\* read_csv's column followed by .astype(str) (line 136): the text of each typed value.
AsTypeStr(cells) ==
    [n \in DOMAIN cells |->
        IF IsNaField(cells[n]) THEN NAN
        ELSE IF Dtype(cells) = "int64" THEN IntText(cells[n])
        ELSE IF Dtype(cells) = "float64" THEN IntText(cells[n]) \o <<".", "0">>
        ELSE cells[n]]

ColumnOf(table, name) ==
    LET c == CHOOSE n \in DOMAIN table.header : table.header[n] = name
    IN  [r \in DOMAIN table.rows |-> table.rows[r][c]]

\* lines 135-136: astype(str).str.strip() of one of the three columns
CsvColumn(table, name) ==
    LET texts == AsTypeStr(ColumnOf(table, name))
    IN  [r \in DOMAIN texts |-> Strip(texts[r])]

LoadOk(selections) == [status |-> "ok", selections |-> selections, what |-> ""]
LoadError(what) == [status |-> "error", selections |-> <<>>, what |-> what]
Pending == [status |-> "pending", selections |-> <<>>, what |-> ""]

\* lines 129-137
LoadCsv(table) ==
    IF ~ (REQUIRED_KEYS \subseteq Range(table.header))
    THEN LoadError("Mapping CSV must have columns")
    ELSE LET src == CsvColumn(table, "source_col")
             ele == CsvColumn(table, "element_id")
             var == CsvColumn(table, "variable_col")
         IN  LoadOk([r \in DOMAIN table.rows |-> [k |-> src[r], v |-> <<ele[r], var[r]>>]])

(* A parsed JSON value: [t |-> "str", s |-> text], [t |-> "list", items |-> values] *)
(* or [t |-> "dict", items |-> sequence of [k |-> text, v |-> value]].              *)
JStr(s) == [t |-> "str", s |-> s, items |-> <<>>]
JList(items) == [t |-> "list", s |-> <<>>, items |-> items]
JDict(items) == [t |-> "dict", s |-> <<>>, items |-> items]

Get(d, key) == d.items[CHOOSE n \in DOMAIN d.items : d.items[n].k = key].v

\* str(v) of a JSON string is the string.
PyStr(v) == v.s

\* lines 87-97
is_block_style_named(d) ==
    /\ d.t = "dict"
    /\ Len(d.items) > 0
    /\ \A n \in DOMAIN d.items :
          /\ d.items[n].v.t = "list"
          /\ \A m \in DOMAIN d.items[n].v.items :
                LET item == d.items[n].v.items[m]
                IN  item.t = "dict" /\ REQUIRED_KEYS \subseteq {item.items[q].k : q \in DOMAIN item.items}

\* lines 99-108
is_key_value_style(d) ==
    /\ d.t = "dict"
    /\ Len(d.items) > 0
    /\ \A n \in DOMAIN d.items : d.items[n].v.t = "list" /\ Len(d.items[n].v.items) = 2

\* lines 146-153
LoadBlocks(mjson) ==
    Flatten([b \in DOMAIN mjson.items |->
        LET block == mjson.items[b].v.items
        IN  [r \in DOMAIN block |->
                [k |-> Strip(PyStr(Get(block[r], "source_col"))),
                 v |-> <<Strip(PyStr(Get(block[r], "element_id"))),
                         Strip(PyStr(Get(block[r], "variable_col")))>>]]])

\* lines 156-164
LoadKeyValue(mjson) ==
    [n \in DOMAIN mjson.items |->
        [k |-> Strip(mjson.items[n].k),
         v |-> <<Strip(PyStr(mjson.items[n].v.items[1])),
                 Strip(PyStr(mjson.items[n].v.items[2]))>>]]

\* lines 126-172
load_mapping(file) ==
    IF file.suffix = ".csv" THEN LoadCsv(file.content)
    ELSE IF file.suffix = ".json"
    THEN IF is_block_style_named(file.content) THEN LoadOk(LoadBlocks(file.content))
         ELSE IF is_key_value_style(file.content) THEN LoadOk(LoadKeyValue(file.content))
         ELSE LoadError("Unrecognized JSON mapping format")
    ELSE LoadError("Mapping must be .csv or .json")

LoadMapping ==
    /\ \E f \in DOMAIN files :
          /\ loaded[f].status = "pending"
          /\ loaded' = [loaded EXCEPT ![f] = load_mapping(files[f])]
    /\ UNCHANGED files
    /\ UNCHANGED convertVars

----------------------------------------------------------------------------
(* The explored calls of convert *)

\* The (element, variable) pairs the mappings draw from: two variables of one element,
\* one variable under two elements, and an element id that holds the separator.
Targets == {<<<<"i">>, <<"p">>>>, <<<<"i">>, <<"k">>>>, <<<<"j">>, <<"k">>>>,
            <<<<"i", BAR, "k">>, <<"p">>>>}

Items == {[k |-> s, v |-> t] : s \in {ColX, ColY}, t \in Targets}

SeqsUpTo(S, n) == UNION {[1..m -> S] : m \in 0..n}

Tables ==
    {[columns |-> <<ColS, ColT, ColX, ColY>>, data |-> d] :
        d \in UNION {[1..m -> IdValues \X {1} \X {NA, 0} \X {1}] : m \in 1..MaxRows}}

InitConvert ==
    /\ pc = "merge"
    /\ pos = 1
    /\ colmap = <<>>
    /\ err = NoErr
    /\ df_helper_long = <<>>
    /\ out = NoFrame
    /\ files = <<>>
    /\ loaded = <<>>

\* Calls that exercise the reshape: tables of up to MaxRows rows, the two identifier
\* columns in either order, mappings over the table's own columns.
Init ==
    /\ InitConvert
    /\ df \in Tables
    /\ id_cols \in {<<ColS, ColT>>, <<ColT, ColS>>}
    /\ mapping \in SeqsUpTo(Items, MaxAssoc)
    /\ validate \in BOOLEAN

\* Calls that exercise the merge and the sanity checks: one table, longer mappings
\* that also name columns the table lacks, identifier lists with an absent column.
InitMerge ==
    /\ InitConvert
    /\ df = [columns |-> <<ColS, ColT, ColX, ColY>>, data |-> <<<<1, 1, 0, 1>>>>]
    /\ id_cols \in {<<ColS, ColT>>, <<ColS, ColU>>, <<>>}
    /\ mapping \in SeqsUpTo({[k |-> s, v |-> t] : s \in {ColX, ColZ, ColW},
                                                   t \in {<<<<"i">>, <<"p">>>>, <<<<"j">>, <<"k">>>>}},
                            MaxAssoc + 1)
    /\ validate \in BOOLEAN

Next ==
    \/ MergeStep
    \/ MergeDone
    \/ SanityChecks
    \/ RenameMelt
    \/ SplitParts
    \/ Pivot

Spec == Init /\ [][Next]_vars

SpecMerge == InitMerge /\ [][Next]_vars

----------------------------------------------------------------------------
(* The explored mapping files: one logical mapping written in the three formats *)

MaxMapRows == 2               \* rows of the logical mapping

RawSources   == {<<"x">>, <<SPACE, "x">>, <<"y">>}
RawElements  == {<<"i">>, <<"i", SPACE>>, <<"0", "1">>}
RawVariables == {<<"p">>, <<SPACE, "p", SPACE>>}

LogicalRows == [source_col : RawSources, element_id : RawElements, variable_col : RawVariables]

\* JSON object keys are unique, so the rows have distinct source_col texts.
LogicalMappings ==
    {L \in UNION {[1..m -> LogicalRows] : m \in 1..MaxMapRows} :
        \A a, b \in DOMAIN L : a # b => L[a].source_col # L[b].source_col}

BlockNames == {<<<<"a">>, <<"k">>>>, <<<<"k">>, <<"a">>>>}

WriteCsv(L) ==
    [suffix |-> ".csv",
     content |-> [header |-> <<"source_col", "element_id", "variable_col">>,
                  rows |-> [r \in DOMAIN L |-> <<L[r].source_col, L[r].element_id, L[r].variable_col>>]]]

RowObject(row) ==
    JDict(<<[k |-> "source_col", v |-> JStr(row.source_col)],
            [k |-> "element_id", v |-> JStr(row.element_id)],
            [k |-> "variable_col", v |-> JStr(row.variable_col)]>>)

\* The rows up to cut in the first block, the others in the second.
WriteBlocks(L, names, cut) ==
    [suffix |-> ".json",
     content |-> JDict(<<[k |-> names[1], v |-> JList([r \in 1..cut |-> RowObject(L[r])])],
                         [k |-> names[2], v |-> JList([r \in 1..(Len(L) - cut) |-> RowObject(L[cut + r])])]>>)]

WriteKeyValue(L) ==
    [suffix |-> ".json",
     content |-> JDict([r \in DOMAIN L |->
                          [k |-> L[r].source_col,
                           v |-> JList(<<JStr(L[r].element_id), JStr(L[r].variable_col)>>)]])]

InitLoad ==
    /\ pc = "idle"
    /\ df = [columns |-> <<>>, data |-> <<>>]
    /\ id_cols = <<>>
    /\ mapping = <<>>
    /\ validate = TRUE
    /\ pos = 1
    /\ colmap = <<>>
    /\ err = NoErr
    /\ df_helper_long = <<>>
    /\ out = NoFrame
    /\ \E L \in LogicalMappings, names \in BlockNames :
          \E cut \in 0..Len(L) :
             files = [csv |-> WriteCsv(L), block |-> WriteBlocks(L, names, cut), kv |-> WriteKeyValue(L)]
    /\ loaded = [csv |-> Pending, block |-> Pending, kv |-> Pending]

NextLoad == LoadMapping

SpecLoad == InitLoad /\ [][NextLoad]_vars

----------------------------------------------------------------------------
(* Vocabulary of the claims *)

MergeFailed ==
    /\ pc = "raised"
    /\ err.what \in {"mapped to different targets", "No columns were selected"}

ConflictRaised ==
    /\ pc = "raised"
    /\ err.type = "ValueError"
    /\ err.what = "mapped to different targets"

\* The merge loop and the emptiness check are behind, and neither raised.
MergeSucceeded == pc \notin {"merge", "idle"} /\ ~MergeFailed

\* Item n re-assigns its source column to a pair that differs from an earlier one.
Differs(n) == \E m \in 1..(n - 1) : mapping[m].k = mapping[n].k /\ mapping[m].v # mapping[n].v

HasReassignment == \E n \in DOMAIN mapping : Differs(n)

FirstDiffering == CHOOSE n \in DOMAIN mapping : Differs(n) /\ \A m \in 1..(n - 1) : ~Differs(m)

LastPair(k) ==
    mapping[CHOOSE n \in DOMAIN mapping :
               mapping[n].k = k /\ \A m \in (n + 1)..Len(mapping) : mapping[m].k # k].v

AbsentSources == {k \in Keys(colmap) : k \notin Range(df.columns)}

AbsentIds == {c \in Range(id_cols) : c \notin Range(df.columns)}

\* Positions of the variable columns in the returned frame.
VarPositions == (Len(id_cols) + 2)..Len(out.columns)

VarColumns == [n \in 1..(Len(out.columns) - Len(id_cols) - 1) |-> out.columns[Len(id_cols) + 1 + n]]

MappedVariables == {colmap[n].v[2] : n \in DOMAIN colmap}

\* The identifier values and the value of column c in wide row r.
WideIds(r) == [c \in DOMAIN id_cols |-> df.data[r][CHOOSE n \in DOMAIN df.columns : df.columns[n] = id_cols[c]]]

WideValue(r, c) == df.data[r][CHOOSE n \in DOMAIN df.columns : df.columns[n] = c]

\* No element id of the merged mapping holds the separator.
NoBarInElements == \A n \in DOMAIN colmap : BAR \notin Range(colmap[n].v[1])

\* Two source columns of the merged mapping share their (element, variable) pair.
SharedPair == \E n, m \in DOMAIN colmap : n # m /\ colmap[n].v = colmap[m].v

FirstSeen(v) == CHOOSE n \in DOMAIN colmap : colmap[n].v[2] = v /\ \A m \in 1..(n - 1) : colmap[m].v[2] # v

----------------------------------------------------------------------------
(* Claims *)

\* C1: when a source column is assigned to two different pairs, validate=True makes
\* convert raise the conflict error at the first differing re-assignment (the loop
\* never gets past it, and equal repeats before it are accepted; without a differing
\* re-assignment no conflict is raised); validate=False lets the merge succeed and
\* the merged table holds, for every source column, the pair of its last item.
C1_MergeConflictPolicy ==
    /\ (validate /\ HasReassignment) =>
          /\ pos <= FirstDiffering
          /\ pc # "merge" => /\ ConflictRaised
                             /\ pos = FirstDiffering
                             /\ err.cols = <<mapping[FirstDiffering].k>>
    /\ (validate /\ ~HasReassignment) => ~ConflictRaised
    /\ (~validate /\ mapping # <<>> /\ pc # "merge") =>
          /\ ~MergeFailed
          /\ Keys(colmap) = {mapping[n].k : n \in DOMAIN mapping}
          /\ \A k \in Keys(colmap) : Lookup(colmap, k) = LastPair(k)

\* C1 witness: a validated merge accepted an equal repeat and raised at the third
\* item, the first that differs.
C1_Witness ==
    /\ validate
    /\ ConflictRaised
    /\ pos = 3
    /\ mapping[1] = mapping[2]
    /\ mapping[3].k = mapping[1].k
    /\ mapping[3].v # mapping[1].v

\* C5: no two rows of the returned frame carry the same identifier values and element.
C5_RowsUnique ==
    pc = "done" =>
        \A a, b \in DOMAIN out.rows :
            a # b => <<out.rows[a].ids, out.rows[a].element>> # <<out.rows[b].ids, out.rows[b].element>>

\* C5 witness: two wide rows share their identifier and both carry a value for a
\* mapped column; the frame is returned with a row for them.
C5_Witness ==
    /\ pc = "done"
    /\ Len(df.data) = 2
    /\ WideIds(1) = WideIds(2)
    /\ \E n \in DOMAIN colmap : WideValue(1, colmap[n].k) # NA /\ WideValue(2, colmap[n].k) # NA
    /\ Len(out.rows) >= 1

\* C6: with validate=True, once the merge has succeeded, absent source columns make
\* convert raise one KeyError that lists every absent source column, an absent
\* identifier column makes it raise as well, and no frame is returned in either case.
C6_ReferenceValidation ==
    /\ (validate /\ MergeSucceeded /\ pc # "check" /\ AbsentSources # {}) =>
          /\ pc = "raised"
          /\ err.type = "KeyError"
          /\ err.what = "Selected columns not in DataFrame"
          /\ Range(err.cols) = AbsentSources
          /\ Len(err.cols) = Cardinality(AbsentSources)
    /\ (validate /\ MergeSucceeded /\ pc # "check" /\ AbsentIds # {}) =>
          /\ pc = "raised"
          /\ err.type = "KeyError"
    /\ (validate /\ MergeSucceeded /\ (AbsentSources # {} \/ AbsentIds # {})) =>
          /\ out = NoFrame
          /\ pc # "done"

\* C6 witness: a validated call whose mapping names two absent columns raised the
\* error that lists both.
C6_Witness ==
    /\ validate
    /\ pc = "raised"
    /\ err.type = "KeyError"
    /\ Cardinality(AbsentSources) = 2
    /\ Range(err.cols) = AbsentSources

\* C8 (amended): the returned columns are the identifier columns in the order given,
\* then 'element', then the variable columns in strictly ascending code-point order.
C8_ColumnsSorted ==
    pc = "done" =>
        /\ SubSeq(out.columns, 1, Len(id_cols)) = id_cols
        /\ out.columns[Len(id_cols) + 1] = ELEMENT
        /\ \A a, b \in VarPositions : a < b => StrLess(out.columns[a], out.columns[b])

\* C8 witness: the identifier columns are given as t, s, the mapping names variable
\* p before variable k, and the returned frame has the columns t, s, element, k, p.
C8_Witness ==
    /\ pc = "done"
    /\ id_cols = <<ColT, ColS>>
    /\ out.columns = <<ColT, ColS, ELEMENT, <<"k">>, <<"p">>>>
    /\ Len(colmap) = 2
    /\ colmap[1].v[2] = <<"p">>
    /\ colmap[2].v[2] = <<"k">>
    /\ VarColumns = <<<<"k">>, <<"p">>>>

\* C8 (as claimed): the variable columns come in the order in which each variable
\* name is first seen in the merged mapping.
C8_FirstSeenOrder ==
    pc = "done" =>
        /\ SubSeq(out.columns, 1, Len(id_cols)) = id_cols
        /\ out.columns[Len(id_cols) + 1] = ELEMENT
        /\ \A a, b \in VarPositions :
              (a < b /\ out.columns[a] \in MappedVariables /\ out.columns[b] \in MappedVariables)
                 => FirstSeen(out.columns[a]) < FirstSeen(out.columns[b])

\* C2 (as claimed): the variable columns of the returned frame are exactly the
\* distinct variable names of the merged mapping, each once.  Stated for the calls
\* that return at least one row and whose element ids hold no '|', where the tag
\* decoding of C10 plays no part.
C2_ColumnCompleteness ==
    (pc = "done" /\ out.rows # <<>> /\ NoBarInElements) =>
        /\ Range(VarColumns) = MappedVariables
        /\ Len(VarColumns) = Cardinality(MappedVariables)

\* C3 (as claimed): for every wide row and every item src -> (E, V) of the merged
\* mapping, the returned frame has a row with the wide row's identifier values and
\* element E whose V cell is the wide row's value in column src.  Stated for the
\* calls that return at least one row, whose wide rows have pairwise different
\* identifier values, whose element ids hold no '|' (C10) and whose source columns
\* have pairwise different pairs (C9).
C3_ValuesLand ==
    (/\ pc = "done"
     /\ out.rows # <<>>
     /\ \A a, b \in DOMAIN df.data : a # b => WideIds(a) # WideIds(b)
     /\ NoBarInElements
     /\ ~SharedPair) =>
        \A r \in DOMAIN df.data, n \in DOMAIN colmap :
            \E o \in DOMAIN out.rows, c \in DOMAIN VarColumns :
                /\ out.rows[o].ids = WideIds(r)
                /\ out.rows[o].element = colmap[n].v[1]
                /\ VarColumns[c] = colmap[n].v[2]
                /\ out.rows[o].cells[c] = WideValue(r, colmap[n].k)

\* C4 (as claimed): in a returned row of element E, a variable column V with no
\* source column mapped to (E, V) holds the missing value.
C4_UnmappedCellsMissing ==
    pc = "done" =>
        \A o \in DOMAIN out.rows, c \in DOMAIN VarColumns :
            (~ \E n \in DOMAIN colmap : colmap[n].v = <<out.rows[o].element, VarColumns[c]>>)
               => out.rows[o].cells[c] = NA

\* C9 (as claimed): when the merged mapping assigns two source columns to the same
\* (element, variable) pair, convert does not return a frame.  Stated for the tables
\* in which a wide row holds a value in both source columns.
C9_SharedPairFails ==
    (/\ MergeSucceeded
     /\ \E n, m \in DOMAIN colmap, r \in DOMAIN df.data :
           /\ n # m
           /\ colmap[n].v = colmap[m].v
           /\ Keys(colmap) \subseteq Range(df.columns)
           /\ WideValue(r, colmap[n].k) # NA
           /\ WideValue(r, colmap[m].k) # NA)
       => pc # "done"

\* C10 (as claimed): the tag of every item of the merged mapping decodes back to
\* the item's (element, variable) pair, different pairs have different tags, and
\* the decoded columns of the melted frame carry exactly the mapping's pairs.
C10_TagRoundTrip ==
    /\ \A n \in DOMAIN colmap : Decode(Tag(colmap[n].v[1], colmap[n].v[2])) = colmap[n].v
    /\ \A n, m \in DOMAIN colmap :
          colmap[n].v # colmap[m].v
             => Tag(colmap[n].v[1], colmap[n].v[2]) # Tag(colmap[m].v[1], colmap[m].v[2])
    /\ pc = "pivot" =>
          {<<df_helper_long[n].element, df_helper_long[n].col>> : n \in DOMAIN df_helper_long}
             = {colmap[n].v : n \in DOMAIN colmap}

\* The associations a load returned, as a set of (source, element, variable) triples.
AssocSet(result) ==
    {<<result.selections[n].k, result.selections[n].v[1], result.selections[n].v[2]>> :
        n \in DOMAIN result.selections}

\* C7 (as claimed): the three files written from one logical mapping load to the
\* same set of associations, every field being the trimmed text of the field written.
C7_FormatsAgree ==
    (\A f \in DOMAIN loaded : loaded[f].status = "ok") =>
        /\ AssocSet(loaded.csv) = AssocSet(loaded.block)
        /\ AssocSet(loaded.block) = AssocSet(loaded.kv)
        /\ AssocSet(loaded.kv) =
              {<<Strip(files.kv.content.items[n].k),
                 Strip(files.kv.content.items[n].v.items[1].s),
                 Strip(files.kv.content.items[n].v.items[2].s)>> : n \in DOMAIN files.kv.content.items}

====
